---- MODULE Spec2Model ----
(***************************************************************************)
(* One run of fc.py (the Firecrawl command-line wrapper): main() checks    *)
(* the credential, parses the arguments, and runs one of five commands     *)
(* against the external scraping service.  Strings are sequences of        *)
(* one-character strings; an absent (None) value is the sequence None.     *)
(***************************************************************************)
EXTENDS Integers, Sequences, FiniteSets, TLC

VARIABLES
    pc,         \* position of main(): which statement runs next
    environ,    \* value of FIRECRAWL_API_KEY in the process environment (None: unset)
    argv,       \* the command line, as argparse will see it
    args,       \* the parsed Namespace (NoArgs before parse_args returns)
    stdout,     \* sequence of texts handed to print()
    stderr,     \* sequence of messages written to sys.stderr
    exit_code,  \* process exit status (-1 while running)
    events,     \* log of handler calls, service calls, fetches, loads, decodes
    fs,         \* files on disk: path -> content
    dirs,       \* directories on disk
    written,    \* paths of the files this run has opened for writing
    schema,     \* the schema main() loaded for extract
    response,   \* what the external service returned (None before the call)
    result,     \* the handler's value: the projected field, then what it returns
    idx         \* loop index of the for statements of main()

vars == <<pc, environ, argv, args, stdout, stderr, exit_code, events, fs, dirs,
          written, schema, response, result, idx>>

-----------------------------------------------------------------------------
(* Bounds of the model *)

MaxPages == 2        \* longest crawl response enumerated exhaustively
MaxResults == 2      \* longest search response
LongCrawl == 1001    \* length of the one long crawl response
LongLen == 1001      \* length of the one long markdown text

(* Program constants *)

SearchLimitDefault == 5
CrawlLimitDefault == 50
PreviewLen == 1000
PadWidth == 3

-----------------------------------------------------------------------------
(* Python values *)

None == <<"NONE">>

Truthy(s) == s # None /\ s # <<>>

\* str(x) as print() and f-strings apply it
Str(s) == IF s = None THEN <<"N", "o", "n", "e">> ELSE s

Min(a, b) == IF a < b THEN a ELSE b

\* s.startswith(p)
StartsWith(s, p) == Len(s) >= Len(p) /\ SubSeq(s, 1, Len(p)) = p

\* s[:n]
Prefix(s, n) == SubSeq(s, 1, Min(n, Len(s)))

DigitChars == <<"0", "1", "2", "3", "4", "5", "6", "7", "8", "9">>

RECURSIVE Decimal(_)
\* str(n) for n >= 0
Decimal(n) == IF n < 10 THEN <<DigitChars[n + 1]>>
              ELSE Decimal(n \div 10) \o <<DigitChars[(n % 10) + 1]>>

RECURSIVE ZeroPad(_, _)
ZeroPad(s, w) == IF Len(s) >= w THEN s ELSE ZeroPad(<<"0">> \o s, w)

\* f"{i:03d}"
Format03d(i) == ZeroPad(Decimal(i), PadWidth)

\* position of the first "," of s, 0 when there is none
FirstComma(s) == IF \E k \in 1..Len(s) : s[k] = ","
                 THEN CHOOSE k \in 1..Len(s) : s[k] = "," /\ \A j \in 1..(k - 1) : s[j] # ","
                 ELSE 0

\* position of the last "," of s, 0 when there is none
LastComma(s) == IF \E k \in 1..Len(s) : s[k] = ","
                THEN CHOOSE k \in 1..Len(s) : s[k] = "," /\ \A j \in (k + 1)..Len(s) : s[j] # ","
                ELSE 0

\* variant: s.rsplit(",", 1), which cuts at the last comma
Split1_last(s) == IF LastComma(s) = 0 THEN <<s>>
                  ELSE <<SubSeq(s, 1, LastComma(s) - 1), SubSeq(s, LastComma(s) + 1, Len(s))>>

\* s.split(",", 1): a list of one or two strings
Split1(s) == IF FirstComma(s) = 0 THEN <<s>>
             ELSE <<SubSeq(s, 1, FirstComma(s) - 1), SubSeq(s, FirstComma(s) + 1, Len(s))>>

-----------------------------------------------------------------------------
(* base64.b64decode, non-strict: characters outside the alphabet are       *)
(* skipped, a complete padding ends the input, a dangling group fails.     *)

B64Alphabet == <<"A","B","C","D","E","F","G","H","I","J","K","L","M","N","O","P",
                 "Q","R","S","T","U","V","W","X","Y","Z","a","b","c","d","e","f",
                 "g","h","i","j","k","l","m","n","o","p","q","r","s","t","u","v",
                 "w","x","y","z","0","1","2","3","4","5","6","7","8","9","+","/">>

InAlphabet(c) == \E k \in 1..64 : B64Alphabet[k] = c

B64Value(c) == (CHOOSE k \in 1..64 : B64Alphabet[k] = c) - 1

RECURSIVE B64Scan(_, _, _, _, _, _)
\* the decoding loop: quad is the position in the group of four, left the
\* bits carried over, pads the "=" seen since the last data character
B64Scan(s, k, quad, left, pads, out) ==
    IF k > Len(s)
    THEN [ok |-> quad = 0, bytes |-> out]
    ELSE IF s[k] = "="
    THEN IF quad >= 2 /\ quad + pads + 1 >= 4
         THEN [ok |-> TRUE, bytes |-> out]
         ELSE B64Scan(s, k + 1, quad, left, IF quad >= 2 THEN pads + 1 ELSE pads, out)
    ELSE IF ~InAlphabet(s[k])
    THEN B64Scan(s, k + 1, quad, left, pads, out)
    ELSE LET v == B64Value(s[k]) IN
         CASE quad = 0 -> B64Scan(s, k + 1, 1, v, 0, out)
           [] quad = 1 -> B64Scan(s, k + 1, 2, v % 16, 0,
                                  Append(out, left * 4 + (v \div 16)))
           [] quad = 2 -> B64Scan(s, k + 1, 3, v % 4, 0,
                                  Append(out, left * 16 + (v \div 4)))
           [] OTHER    -> B64Scan(s, k + 1, 0, 0, 0, Append(out, left * 64 + v))

b64decode(s) == B64Scan(s, 1, 0, 0, 0, <<>>)

-----------------------------------------------------------------------------
(* json.load / json.dumps on the JSON documents of the model: the empty    *)
(* object, and an object of one string member.                             *)

EmptyObject == <<"dict">>
OneMember == <<"dict", <<"k">>, <<"v">>>>

\* json.load(f) of a file whose text is t
JsonLoad(t) == IF t = <<"{", "}">> THEN [ok |-> TRUE, value |-> EmptyObject]
               ELSE [ok |-> FALSE, value |-> None]

\* json.dumps(v, indent=2)
JsonDumps(v) == IF v = None THEN <<"n", "u", "l", "l">>
                ELSE IF Len(v) = 1 THEN <<"{", "}">>
                ELSE <<"{", "\n", " ", " ", "\"">> \o v[2] \o <<"\"", ":", " ", "\"">>
                     \o v[3] \o <<"\"", "\n", "}">>

-----------------------------------------------------------------------------
(* Texts the program prints *)

NoKeyMessage == "FIRECRAWL_API_KEY not set in environment."
UsageMessage == "usage: fc.py [-h] {markdown,screenshot,extract,search,crawl} ..."

Http == <<"h", "t", "t", "p", ":", "/", "/">>
Https == <<"h", "t", "t", "p", "s", ":", "/", "/">>
DataImage == <<"d", "a", "t", "a", ":", "i", "m", "a", "g", "e">>

SavedTo == <<"S","c","r","e","e","n","s","h","o","t"," ","s","a","v","e","d"," ","t","o"," ">>
ScreenshotUrl == <<"[","S","c","r","e","e","n","s","h","o","t"," ","U","R","L",":"," ">>
ScreenshotLen == <<"[","S","c","r","e","e","n","s","h","o","t",":"," ">>
BytesBase64 == <<" ","b","y","t","e","s"," ","b","a","s","e","6","4","]">>
Heading == <<"#", "#", " ">>
UrlLabel == <<"U", "R", "L", ":", " ">>
NoDescription == <<"N","o"," ","d","e","s","c","r","i","p","t","i","o","n">>
Untitled == <<"U", "n", "t", "i", "t", "l", "e", "d">>
Separator == <<"\n", "-", "-", "-", "\n">>
Saved == <<"S", "a", "v", "e", "d", " ">>
PagesTo == <<" ", "p", "a", "g", "e", "s", " ", "t", "o", " ">>
PageStem == <<"/", "p", "a", "g", "e", "_">>
DotMd == <<".", "m", "d">>

\* variant: files numbered from 1, as enumerate(pages, 1) would
Filename_one_based(output, i) == output \o PageStem \o Format03d(i + 1) \o DotMd

\* f"{args.output}/page_{i:03d}.md"
Filename(output, i) == output \o PageStem \o Format03d(i) \o DotMd

-----------------------------------------------------------------------------
(* Inputs: the environment, the command line, the disk *)

Url == <<"u">>
OutFile == <<"o", ".", "p", "n", "g">>
OutDir == <<"d">>
SchemaPath == <<"s">>
NoLimit == -1        \* --limit not on the command line
BigLimit == 2000     \* a --limit that allows the long crawl

CommandNames == {"markdown", "screenshot", "extract", "search", "crawl"}

NoArgs == [command |-> "", complete |-> FALSE, url |-> None, main_only |-> FALSE,
           output |-> None, schema |-> None, prompt |-> None, limit |-> NoLimit]

Argvs ==
    {[NoArgs EXCEPT !.command = "markdown", !.complete = TRUE, !.url = Url,
                    !.main_only = m] : m \in BOOLEAN}
    \cup {[NoArgs EXCEPT !.command = "screenshot", !.complete = TRUE, !.url = Url,
                         !.output = o] : o \in {None, <<>>, OutFile}}
    \cup {[NoArgs EXCEPT !.command = "extract", !.complete = TRUE, !.url = Url,
                         !.schema = SchemaPath, !.prompt = p] : p \in {None, <<>>, <<"p">>}}
    \cup {[NoArgs EXCEPT !.command = "search", !.complete = TRUE, !.url = Url,
                         !.limit = l] : l \in {NoLimit, 1}}
    \cup {[NoArgs EXCEPT !.command = "crawl", !.complete = TRUE, !.url = Url,
                         !.limit = l, !.output = o] :
              l \in {NoLimit, BigLimit}, o \in {None, <<>>, OutDir}}
    \* an unknown subcommand, no subcommand, a subcommand without its required arguments
    \cup {[NoArgs EXCEPT !.command = c] : c \in CommandNames \cup {"", "bogus"}}

EmptyDisk == [files |-> << >>, dirs |-> {}]
Disks ==
    { EmptyDisk,
      [files |-> (SchemaPath :> <<"{", "}">>), dirs |-> {}],
      [files |-> (SchemaPath :> <<"{">>) @@ (Filename(OutDir, 0) :> <<"o", "l", "d">>)
                 @@ (Filename(OutDir, 7) :> <<"o", "l", "d">>) @@ (OutFile :> <<1, 2>>),
       dirs |-> {OutDir}] }

Init ==
    /\ pc = "start"
    /\ environ \in {None, <<>>, <<"k">>}
    /\ argv \in Argvs
    /\ args = NoArgs
    /\ stdout = <<>>
    /\ stderr = <<>>
    /\ exit_code = -1
    /\ events = <<>>
    /\ \E d \in Disks : fs = d.files /\ dirs = d.dirs
    /\ written = {}
    /\ schema = None
    /\ response = None
    /\ result = None
    /\ idx = 0

-----------------------------------------------------------------------------
(* Outcomes shared by the statements of main() *)

\* an uncaught exception: traceback on stderr, exit status 1
Raise(exc) ==
    /\ pc' = "crashed"
    /\ stderr' = Append(stderr, exc)
    /\ exit_code' = 1

\* main() returns
Return ==
    /\ pc' = "done"
    /\ exit_code' = 0

Handler(name) == [kind |-> "handler", op |-> name]

-----------------------------------------------------------------------------
(* main(): credential check and argument parsing *)

\* variant: the message is printed but sys.exit(1) is missing
check_credential_no_exit ==
    /\ pc = "start"
    /\ stderr' = IF ~Truthy(environ) THEN Append(stderr, NoKeyMessage) ELSE stderr
    /\ pc' = "parse"
    /\ UNCHANGED <<environ, argv, args, stdout, exit_code, events, fs, dirs, written,
                   schema, response, result, idx>>

check_credential ==
    /\ pc = "start"
    /\ IF ~Truthy(environ)
       THEN /\ stderr' = Append(stderr, NoKeyMessage)
            /\ exit_code' = 1
            /\ pc' = "exited"
       ELSE /\ pc' = "parse"
            /\ UNCHANGED <<stderr, exit_code>>
    /\ UNCHANGED <<environ, argv, args, stdout, events, fs, dirs, written, schema, response, response, result, idx>>

\* argparse supplies the defaults of the flags that were not given
Namespace(a) ==
    [a EXCEPT !.limit = IF a.limit # NoLimit THEN a.limit
                        ELSE IF a.command = "search" THEN SearchLimitDefault
                        ELSE IF a.command = "crawl" THEN CrawlLimitDefault
                        ELSE NoLimit]

parse_args ==
    /\ pc = "parse"
    /\ IF argv.command \in CommandNames /\ argv.complete
       THEN /\ args' = Namespace(argv)
            /\ pc' = "dispatch"
            /\ UNCHANGED <<stderr, exit_code>>
       ELSE /\ stderr' = Append(stderr, UsageMessage)
            /\ exit_code' = 2
            /\ pc' = "usage"
            /\ UNCHANGED args
    /\ UNCHANGED <<environ, argv, stdout, events, fs, dirs, written, schema, response, response, result, idx>>

\* variant: the branch is taken whatever the command
Branch_any(c) == pc = "dispatch"

\* the if / elif chain of main(): the branch of command c is taken
Branch(c) == pc = "dispatch" /\ args.command = c

-----------------------------------------------------------------------------
(* markdown *)

MarkdownTexts == {None, <<>>, <<"A">>}

\* only_main if only_main else None
OnlyMainParam(only_main) == IF only_main THEN "True" ELSE "None"

scrape_markdown ==
    /\ Branch("markdown")
    /\ events' = events \o <<Handler("scrape_markdown"),
                             [kind |-> "service", op |-> "scrape", formats |-> "markdown",
                              only_main_content |-> OnlyMainParam(args.main_only)]>>
    /\ \/ /\ Raise("FirecrawlError")
          /\ UNCHANGED <<response, result>>
       \/ /\ \E markdown \in MarkdownTexts : response' = markdown /\ result' = markdown
          /\ pc' = "print_content"
          /\ UNCHANGED <<stderr, exit_code>>
    /\ UNCHANGED <<environ, argv, args, stdout, fs, dirs, written, schema, idx>>

print_content ==
    /\ pc = "print_content"
    /\ stdout' = Append(stdout, Str(result))
    /\ Return
    /\ UNCHANGED <<environ, argv, args, stderr, events, fs, dirs, written, schema, response, response, result, idx>>

-----------------------------------------------------------------------------
(* screenshot *)

PngBase64 == <<"/", "p", "n", "g", ";", "b", "a", "s", "e", "6", "4", ",">>

ScreenshotDatas ==
    { None,
      <<>>,
      Https \o <<"x">>,
      Http \o <<"x">>,
      DataImage \o PngBase64 \o <<"A", "A", "A", "A">>,
      DataImage \o <<",", "Q", "Q", "=", "=", ",", "A", "A", "A", "A">>,
      DataImage,
      <<"T", "W", "F", "u">>,
      <<"Q", "Q">> }

RemoteBodies == {<<>>, <<137, 80>>}

take_screenshot ==
    /\ Branch("screenshot")
    /\ events' = events \o <<Handler("take_screenshot"),
                             [kind |-> "service", op |-> "scrape", formats |-> "screenshot"]>>
    /\ \/ /\ Raise("FirecrawlError")
          /\ UNCHANGED <<response, result>>
       \/ /\ \E screenshot \in ScreenshotDatas : response' = screenshot /\ result' = screenshot
          /\ pc' = "screenshot_data"
          /\ UNCHANGED <<stderr, exit_code>>
    /\ UNCHANGED <<environ, argv, args, stdout, fs, dirs, written, schema, idx>>

IsRemote(screenshot_data) ==
    StartsWith(screenshot_data, Http) \/ StartsWith(screenshot_data, Https)

\* result.screenshot is None: None has no startswith
screenshot_none ==
    /\ pc = "screenshot_data"
    /\ result = None
    /\ Raise("AttributeError")
    /\ UNCHANGED <<environ, argv, args, stdout, events, fs, dirs, written, schema, response, response, result, idx>>

\* variant: line 37 missing, so a locator without an output path falls
\* through to the base64 summary
take_screenshot_remote_fallthrough ==
    /\ pc = "screenshot_data"
    /\ result # None
    /\ IsRemote(result)
    /\ IF Truthy(args.output)
       THEN \E body \in RemoteBodies :
               /\ events' = Append(events, [kind |-> "fetch", op |-> "urlretrieve",
                                            url |-> result, body |-> body])
               /\ fs' = (args.output :> body) @@ fs
               /\ written' = written \cup {args.output}
               /\ result' = SavedTo \o args.output
       ELSE /\ result' = ScreenshotLen \o Decimal(Len(result)) \o BytesBase64
            /\ UNCHANGED <<events, fs, written>>
    /\ pc' = "print_result"
    /\ UNCHANGED <<environ, argv, args, stdout, stderr, exit_code, dirs, schema, response, idx>>

take_screenshot_remote ==
    /\ pc = "screenshot_data"
    /\ result # None
    /\ IsRemote(result)
    /\ IF Truthy(args.output)
       THEN \/ \E body \in RemoteBodies :
                     /\ events' = Append(events, [kind |-> "fetch", op |-> "urlretrieve",
                                                  url |-> result, body |-> body])
                     /\ fs' = (args.output :> body) @@ fs
                     /\ written' = written \cup {args.output}
                     /\ result' = SavedTo \o args.output
                     /\ pc' = "print_result"
                     /\ UNCHANGED <<stderr, exit_code>>
            \/ /\ events' = Append(events, [kind |-> "fetch", op |-> "urlretrieve",
                                            url |-> result, body |-> <<>>])
               /\ \/ UNCHANGED <<fs, written>>
                  \/ /\ fs' = (args.output :> <<>>) @@ fs
                     /\ written' = written \cup {args.output}
               /\ Raise("URLError")
               /\ UNCHANGED result
       ELSE /\ result' = ScreenshotUrl \o result \o <<"]">>
            /\ pc' = "print_result"
            /\ UNCHANGED <<stderr, exit_code, events, fs, written>>
    /\ UNCHANGED <<environ, argv, args, stdout, dirs, schema, response, idx>>

\* lines 40-41: the payload of a data URI, the string itself otherwise
Payload(screenshot_data) ==
    IF StartsWith(screenshot_data, DataImage) THEN Split1(screenshot_data)[2]
    ELSE screenshot_data

take_screenshot_embedded ==
    /\ pc = "screenshot_data"
    /\ result # None
    /\ ~IsRemote(result)
    /\ IF StartsWith(result, DataImage) /\ Len(Split1(result)) < 2
       THEN /\ Raise("IndexError")
            /\ UNCHANGED <<events, fs, written, result>>
       ELSE IF Truthy(args.output)
       THEN \/ /\ Raise("OSError in open")
               /\ UNCHANGED <<events, fs, written, result>>
            \/ /\ written' = written \cup {args.output}
               /\ events' = Append(events, [kind |-> "decode", op |-> "b64decode"])
               /\ LET decoded == b64decode(Payload(result)) IN
                  IF decoded.ok
                  THEN /\ fs' = (args.output :> decoded.bytes) @@ fs
                       /\ result' = SavedTo \o args.output
                       /\ pc' = "print_result"
                       /\ UNCHANGED <<stderr, exit_code>>
                  ELSE /\ fs' = (args.output :> <<>>) @@ fs
                       /\ Raise("binascii.Error")
                       /\ UNCHANGED result
       ELSE /\ result' = ScreenshotLen \o Decimal(Len(Payload(result))) \o BytesBase64
            /\ pc' = "print_result"
            /\ UNCHANGED <<stderr, exit_code, events, fs, written>>
    /\ UNCHANGED <<environ, argv, args, stdout, dirs, schema, response, idx>>

print_result ==
    /\ pc = "print_result"
    /\ stdout' = Append(stdout, Str(result))
    /\ Return
    /\ UNCHANGED <<environ, argv, args, stderr, events, fs, dirs, written, schema, response, response, result, idx>>

-----------------------------------------------------------------------------
(* extract *)

JsonValues == {None, EmptyObject, OneMember}

\* variant: a schema that cannot be loaded is replaced by no schema
load_schema_lenient ==
    /\ Branch("extract")
    /\ events' = Append(events, [kind |-> "load", op |-> "open"])
    /\ schema' = IF args.schema \in DOMAIN fs /\ JsonLoad(fs[args.schema]).ok
                 THEN JsonLoad(fs[args.schema]).value ELSE None
    /\ pc' = "extract_data"
    /\ UNCHANGED <<environ, argv, args, stdout, stderr, exit_code, fs, dirs, written,
                   response, result, idx>>

load_schema ==
    /\ Branch("extract")
    /\ events' = Append(events, [kind |-> "load", op |-> "open"])
    /\ IF args.schema \notin DOMAIN fs
       THEN /\ Raise("FileNotFoundError")
            /\ UNCHANGED schema
       ELSE IF ~JsonLoad(fs[args.schema]).ok
       THEN /\ Raise("JSONDecodeError")
            /\ UNCHANGED schema
       ELSE /\ schema' = JsonLoad(fs[args.schema]).value
            /\ pc' = "extract_data"
            /\ UNCHANGED <<stderr, exit_code>>
    /\ UNCHANGED <<environ, argv, args, stdout, fs, dirs, written, response, result, idx>>

\* lines 55-57: the prompt is part of the format only when it is non-empty
FormatSpec(s, prompt) ==
    [type |-> "json", schema |-> s, prompt |-> IF Truthy(prompt) THEN prompt ELSE None]

extract_data ==
    /\ pc = "extract_data"
    /\ events' = events \o <<Handler("extract_data"),
                             [kind |-> "service", op |-> "scrape",
                              formats |-> FormatSpec(schema, args.prompt)]>>
    /\ \/ /\ Raise("FirecrawlError")
          /\ UNCHANGED <<response, result>>
       \/ /\ \E json \in JsonValues : response' = json /\ result' = json
          /\ pc' = "print_data"
          /\ UNCHANGED <<stderr, exit_code>>
    /\ UNCHANGED <<environ, argv, args, stdout, fs, dirs, written, schema, idx>>

print_data ==
    /\ pc = "print_data"
    /\ stdout' = Append(stdout, JsonDumps(result))
    /\ Return
    /\ UNCHANGED <<environ, argv, args, stderr, events, fs, dirs, written, schema, response, response, result, idx>>

-----------------------------------------------------------------------------
(* search *)

RECURSIVE SeqsUpTo(_, _)
\* the sequences over S of length at most n
SeqsUpTo(S, n) == IF n = 0 THEN {<<>>}
                  ELSE LET shorter == SeqsUpTo(S, n - 1) IN
                       shorter \cup {Append(q, x) : q \in shorter, x \in S}

SearchResults == [title : {<<"T">>, <<"W">>}, url : {Url}, description : {None, <<>>, <<"D">>}]

\* results.web of the service's answer: absent, or at most limit results
WebResponses(limit) ==
    {[present |-> FALSE, items |-> <<>>]}
    \cup {[present |-> TRUE, items |-> q] :
             q \in {r \in SeqsUpTo(SearchResults, MaxResults) : Len(r) <= limit}}

Reverse(q) == [k \in 1..Len(q) |-> q[Len(q) + 1 - k]]

\* variant: the results are reordered locally
search_web_reversed ==
    /\ Branch("search")
    /\ events' = events \o <<Handler("search_web"),
                             [kind |-> "service", op |-> "search", limit |-> args.limit]>>
    /\ \E web \in WebResponses(args.limit) :
          /\ response' = web
          /\ result' = IF web.present /\ web.items # <<>> THEN Reverse(web.items) ELSE <<>>
    /\ idx' = 0
    /\ pc' = "search_loop"
    /\ UNCHANGED <<environ, argv, args, stdout, stderr, exit_code, fs, dirs, written, schema>>

search_web ==
    /\ Branch("search")
    /\ events' = events \o <<Handler("search_web"),
                             [kind |-> "service", op |-> "search", limit |-> args.limit]>>
    /\ \/ /\ Raise("FirecrawlError")
          /\ UNCHANGED <<response, result, idx>>
       \/ /\ \E web \in WebResponses(args.limit) :
                /\ response' = web
                /\ result' = IF web.present /\ web.items # <<>> THEN web.items ELSE <<>>
          /\ idx' = 0
          /\ pc' = "search_loop"
          /\ UNCHANGED <<stderr, exit_code>>
    /\ UNCHANGED <<environ, argv, args, stdout, fs, dirs, written, schema>>

\* one iteration of "for r in results", or the end of the loop
print_search_result ==
    /\ pc = "search_loop"
    /\ IF idx < Len(result)
       THEN LET r == result[idx + 1] IN
            /\ stdout' = stdout \o <<Heading \o Str(r.title),
                                     UrlLabel \o Str(r.url),
                                     IF Truthy(r.description) THEN r.description
                                     ELSE NoDescription,
                                     Separator>>
            /\ idx' = idx + 1
            /\ UNCHANGED <<pc, exit_code>>
       ELSE /\ Return
            /\ UNCHANGED <<stdout, idx>>
    /\ UNCHANGED <<environ, argv, args, stderr, events, fs, dirs, written, schema, response, result>>

-----------------------------------------------------------------------------
(* crawl *)

LongText == [k \in 1..LongLen |-> "m"]

Pages ==
    {[markdown |-> m, has_metadata |-> FALSE, title |-> None] :
        m \in {None, <<>>, <<"A">>, LongText}}
    \cup [markdown : {None, <<>>, <<"A">>, LongText}, has_metadata : {TRUE},
          title : {None, <<"T">>}]

LongPages == [k \in 1..LongCrawl |->
                 [markdown |-> <<"A">>, has_metadata |-> TRUE, title |-> <<"T">>]]

\* result.data of the service's answer: absent, or at most limit pages
CrawlResponses(limit) ==
    {[present |-> FALSE, items |-> <<>>]}
    \cup {[present |-> TRUE, items |-> q] :
             q \in {r \in SeqsUpTo(Pages, MaxPages) \cup {LongPages} : Len(r) <= limit}}

crawl_docs ==
    /\ Branch("crawl")
    /\ events' = events \o <<Handler("crawl_docs"),
                             [kind |-> "service", op |-> "crawl", limit |-> args.limit]>>
    /\ \/ /\ Raise("FirecrawlError")
          /\ UNCHANGED <<response, result, idx>>
       \/ /\ \E data \in CrawlResponses(args.limit) : response' = data /\ result' = data
          /\ idx' = 0
          /\ pc' = IF Truthy(args.output) THEN "mkdir" ELSE "print_pages"
          /\ UNCHANGED <<stderr, exit_code>>
    /\ UNCHANGED <<environ, argv, args, stdout, fs, dirs, written, schema>>

\* Path(args.output).mkdir(parents=True, exist_ok=True)
mkdir ==
    /\ pc = "mkdir"
    /\ \/ /\ Raise("OSError in mkdir")
          /\ UNCHANGED dirs
       \/ /\ dirs' = dirs \cup {args.output}
          /\ pc' = "write_pages"
          /\ UNCHANGED <<stderr, exit_code>>
    /\ UNCHANGED <<environ, argv, args, stdout, events, fs, written, schema, response, response, result, idx>>

\* iterating or measuring pages when result.data is None
pages_none ==
    /\ pc \in {"write_pages", "print_pages"}
    /\ ~result.present
    /\ Raise("TypeError")
    /\ UNCHANGED <<environ, argv, args, stdout, events, fs, dirs, written, schema, response, response, result, idx>>

\* page.markdown or ""
MarkdownOrEmpty(page) == IF Truthy(page.markdown) THEN page.markdown ELSE <<>>

\* variant: a failed write removes the files written so far before failing
write_page_rollback ==
    /\ pc = "write_pages"
    /\ result.present
    /\ idx < Len(result.items)
    /\ LET filename == Filename(args.output, idx)
           text == MarkdownOrEmpty(result.items[idx + 1]) IN
       \/ /\ fs' = [f \in DOMAIN fs \ written |-> fs[f]]
          /\ Raise("OSError in write")
          /\ UNCHANGED <<written, idx>>
       \/ /\ fs' = (filename :> text) @@ fs
          /\ written' = written \cup {filename}
          /\ idx' = idx + 1
          /\ UNCHANGED <<pc, stderr, exit_code>>
    /\ UNCHANGED <<environ, argv, args, stdout, events, dirs, schema, response, result>>

\* one iteration of "for i, page in enumerate(pages)": open the file, write, close
write_page ==
    /\ pc = "write_pages"
    /\ result.present
    /\ idx < Len(result.items)
    /\ LET filename == Filename(args.output, idx)
           text == MarkdownOrEmpty(result.items[idx + 1]) IN
       \/ /\ Raise("OSError in open")               \* open() fails
          /\ UNCHANGED <<fs, written, idx>>
       \/ /\ \E n \in {0, Len(text) - 1} :          \* write() fails part-way
                /\ n >= 0
                /\ fs' = (filename :> Prefix(text, n)) @@ fs
          /\ written' = written \cup {filename}
          /\ Raise("OSError in write")
          /\ UNCHANGED idx
       \/ /\ fs' = (filename :> text) @@ fs
          /\ written' = written \cup {filename}
          /\ idx' = idx + 1
          /\ UNCHANGED <<pc, stderr, exit_code>>
    /\ UNCHANGED <<environ, argv, args, stdout, events, dirs, schema, response, result>>

\* line 150, after the loop
report_saved ==
    /\ pc = "write_pages"
    /\ result.present
    /\ idx = Len(result.items)
    /\ stdout' = Append(stdout, Saved \o Decimal(Len(result.items)) \o PagesTo
                                \o args.output \o <<"/">>)
    /\ Return
    /\ UNCHANGED <<environ, argv, args, stderr, events, fs, dirs, written, schema, response, response, result, idx>>

\* page.metadata.title if page.metadata else "Untitled"
Title(page) == IF page.has_metadata THEN page.title ELSE Untitled

\* page.markdown[:1000] if page.markdown else ""
Preview(page) == IF Truthy(page.markdown) THEN Prefix(page.markdown, PreviewLen) ELSE <<>>

\* one iteration of "for page in pages", or the end of the loop
print_page ==
    /\ pc = "print_pages"
    /\ result.present
    /\ IF idx < Len(result.items)
       THEN LET page == result.items[idx + 1] IN
            /\ stdout' = stdout \o <<Heading \o Str(Title(page)), Preview(page), Separator>>
            /\ idx' = idx + 1
            /\ UNCHANGED <<pc, exit_code>>
       ELSE /\ Return
            /\ UNCHANGED <<stdout, idx>>
    /\ UNCHANGED <<environ, argv, args, stderr, events, fs, dirs, written, schema, response, result>>

-----------------------------------------------------------------------------

Next ==
    \/ check_credential
    \/ parse_args
    \/ scrape_markdown
    \/ print_content
    \/ take_screenshot
    \/ screenshot_none
    \/ take_screenshot_remote
    \/ take_screenshot_embedded
    \/ print_result
    \/ load_schema
    \/ extract_data
    \/ print_data
    \/ search_web
    \/ print_search_result
    \/ crawl_docs
    \/ mkdir
    \/ pages_none
    \/ write_page
    \/ report_saved
    \/ print_page

Spec == Init /\ [][Next]_vars

-----------------------------------------------------------------------------
(* Properties *)

IsHandler(e) == e.kind = "handler"
IsService(e) == e.kind = "service"
IsFetch(e) == e.kind = "fetch"
IsDecode(e) == e.kind = "decode"
IsLoad(e) == e.kind = "load"

Handlers == SelectSeq(events, IsHandler)
ServiceCalls == SelectSeq(events, IsService)
Fetches == SelectSeq(events, IsFetch)
Decodes == SelectSeq(events, IsDecode)

Finished == pc \in {"done", "crashed", "exited", "usage"}

\* C1: whatever the command line, a run without FIRECRAWL_API_KEY in the
\* environment goes from the start straight to exit status 1 with the message
\* on stderr: the arguments are never parsed, nothing is printed to stdout, no
\* handler or service is called and no file is written.
C1_NoCredentialExits ==
    environ = None =>
        /\ pc \in {"start", "exited"}
        /\ pc = "start" => ENABLED check_credential
        /\ pc = "exited" => exit_code = 1 /\ stderr = <<NoKeyMessage>>
        /\ args = NoArgs
        /\ stdout = <<>>
        /\ events = <<>>
        /\ written = {}

C1_Witness ==
    /\ environ = None
    /\ pc = "exited"
    /\ exit_code = 1
    /\ argv.command = "bogus"

SchemaLoadable == args.schema \in DOMAIN fs /\ JsonLoad(fs[args.schema]).ok

\* C2: in extract, every request to the service is preceded by the load of
\* the schema file, and when the file is missing or is not valid JSON the run
\* fails with no request to the service and nothing on stdout.
C2_SchemaBeforeScrape ==
    args.command = "extract" =>
        /\ \A k \in 1..Len(events) :
              IsService(events[k]) => \E j \in 1..(k - 1) : IsLoad(events[j])
        /\ ~SchemaLoadable =>
              /\ ServiceCalls = <<>>
              /\ Handlers = <<>>
              /\ stdout = <<>>
              /\ pc \in {"dispatch", "crashed"}
              /\ pc = "crashed" => exit_code # 0

C2_Witness ==
    /\ args.command = "extract"
    /\ pc = "crashed"
    /\ SchemaPath \in DOMAIN fs
    /\ fs[SchemaPath] = <<"{">>
    /\ stderr = <<"JSONDecodeError">>
    /\ ServiceCalls = <<>>

\* the digits between "page_" and ".md" of a file name
DigitsOf(f, output) == SubSeq(f, Len(output) + Len(PageStem) + 1, Len(f) - Len(DotMd))

IsPageFile(f, output) ==
    /\ Len(f) > Len(output) + Len(PageStem) + Len(DotMd)
    /\ StartsWith(f, output \o PageStem)
    /\ SubSeq(f, Len(f) - Len(DotMd) + 1, Len(f)) = DotMd
    /\ \A k \in 1..Len(DigitsOf(f, output)) :
          \E d \in 1..10 : DigitChars[d] = DigitsOf(f, output)[k]

DigitValue(c) == (CHOOSE d \in 1..10 : DigitChars[d] = c) - 1

RECURSIVE DecimalValue(_)
DecimalValue(d) == IF d = <<>> THEN 0
                   ELSE 10 * DecimalValue(SubSeq(d, 1, Len(d) - 1)) + DigitValue(d[Len(d)])

\* what the file of a page holds: its markdown, nothing when it has none
ExpectedText(page) == IF page.markdown = None THEN <<>> ELSE page.markdown

CrawlSavedRun == args.command = "crawl" /\ Truthy(args.output) /\ pc = "done"

\* the condition on the digits of a file name: exactly three, or padded to
\* at least three (no zero in front of a longer number)
WidthOk(d, exact) == IF exact THEN Len(d) = 3
                     ELSE Len(d) >= 3 /\ (Len(d) > 3 => d[1] # "0")

\* the number in the name of a page file
NumberOf(f) == DecimalValue(DigitsOf(f, args.output))

\* the files of a finished crawl
PagesSaved(exact) ==
    /\ args.output \in dirs
    /\ Cardinality(written) = Len(result.items)
    /\ \A f \in written : IsPageFile(f, args.output) /\ f \in DOMAIN fs
    /\ {NumberOf(f) : f \in written} = 0..(Len(result.items) - 1)
    /\ \A f \in written :
          /\ WidthOk(DigitsOf(f, args.output), exact)
          /\ fs[f] = ExpectedText(result.items[NumberOf(f) + 1])
    /\ stdout = <<Saved \o Decimal(Len(result.items)) \o PagesTo \o args.output \o <<"/">> >>

\* C3 (as stated): after a successful crawl to a directory of N pages, the
\* directory exists and the run wrote exactly N files, page i in the file
\* whose index is i in exactly three digits, holding its markdown (empty when
\* it has none), and the reported count is N.
C3_ThreeDigitNames == CrawlSavedRun => PagesSaved(TRUE)

\* C3 (amended): as above, with the index of page i zero-padded to at least
\* three digits: three digits below 1000, the plain decimal number from 1000.
C3_PaddedNames == CrawlSavedRun => PagesSaved(FALSE)

C3_Witness ==
    /\ CrawlSavedRun
    /\ Len(result.items) = 2
    /\ result.items[1].markdown = <<"A">>
    /\ result.items[2].markdown = None
    /\ fs[OutDir \o PageStem \o <<"0", "0", "0">> \o DotMd] = <<"A">>
    /\ fs[OutDir \o PageStem \o <<"0", "0", "1">> \o DotMd] = <<>>
    /\ Cardinality(written) = 2

CrawlPrintRun ==
    /\ args.command = "crawl"
    /\ ~Truthy(args.output)
    /\ pc \in {"print_pages", "done"}
    /\ response.present

\* the heading of a page: its title, "Untitled" without metadata or title
HeadingTitle(page) == IF ~page.has_metadata \/ page.title = None THEN Untitled
                      ELSE page.title

\* C4: a crawl without an output directory prints, for every page, the
\* heading with the metadata's title, or "Untitled" when the metadata or the
\* title is absent, then the first 1000 characters of the markdown (nothing
\* when absent), then the separator.
C4_UntitledFallback ==
    CrawlPrintRun =>
        /\ Len(stdout) = 3 * idx
        /\ pc = "done" => idx = Len(response.items)
        /\ \A k \in 1..idx :
              LET page == response.items[k] IN
              /\ stdout[3 * k - 2] = Heading \o HeadingTitle(page)
              /\ stdout[3 * k - 1] =
                    IF page.markdown = None THEN <<>>
                    ELSE SubSeq(page.markdown, 1, Min(PreviewLen, Len(page.markdown)))
              /\ stdout[3 * k] = Separator

ScreenshotAnswered ==
    /\ args.command = "screenshot"
    /\ pc \in {"print_result", "done"} \/ (pc = "crashed" /\ ServiceCalls # <<>>)
    /\ response # None

RemoteLocator(t) == \/ Len(t) >= 7 /\ SubSeq(t, 1, 7) = Http
                    \/ Len(t) >= 8 /\ SubSeq(t, 1, 8) = Https

\* C5: when the screenshot is an http(s) locator, a run with an output path
\* fetches the locator once, writes the fetched bytes to the path and prints
\* "Screenshot saved to <path>"; a run without one prints exactly
\* "[Screenshot URL: <locator>]", fetches nothing and writes no file.  Nothing
\* is base64-decoded in either case.
C5_RemoteScreenshot ==
    (ScreenshotAnswered /\ RemoteLocator(response)) =>
        /\ Decodes = <<>>
        /\ IF Truthy(args.output)
           THEN /\ Len(Fetches) = 1
                /\ Fetches[1].url = response
                /\ pc \in {"print_result", "done"} =>
                      /\ fs[args.output] = Fetches[1].body
                      /\ result = SavedTo \o args.output
                /\ pc = "done" => stdout = <<SavedTo \o args.output>>
           ELSE /\ Fetches = <<>>
                /\ written = {}
                /\ pc # "crashed"
                /\ pc = "done" => stdout = << ScreenshotUrl \o response \o <<"]">> >>

C5_Witness ==
    /\ args.command = "screenshot"
    /\ pc = "done"
    /\ response = Https \o <<"x">>
    /\ args.output = OutFile
    /\ fs[OutFile] = <<137, 80>>
    /\ Len(Fetches) = 1

RECURSIVE AfterComma(_)
\* what follows the first comma of t
AfterComma(t) == IF t = <<>> THEN <<>>
                 ELSE IF Head(t) = "," THEN Tail(t)
                 ELSE AfterComma(Tail(t))

\* C6: when the screenshot is a data URI and an output path was given, the
\* file at the path holds the base64 decoding of what follows the first comma
\* of the URI, the message names the path, and nothing is fetched.
C6_DataUriDecoded ==
    (ScreenshotAnswered /\ StartsWith(response, DataImage) /\ Truthy(args.output)) =>
        /\ Fetches = <<>>
        /\ pc \in {"print_result", "done"} =>
              /\ b64decode(AfterComma(response)).ok
              /\ fs[args.output] = b64decode(AfterComma(response)).bytes
              /\ result = SavedTo \o args.output
        /\ pc = "done" => stdout = <<SavedTo \o args.output>>

C6_Witness ==
    /\ args.command = "screenshot"
    /\ pc = "done"
    /\ response = DataImage \o PngBase64 \o <<"A", "A", "A", "A">>
    /\ args.output = OutFile
    /\ fs[OutFile] = <<0, 0, 0>>
    /\ stdout = <<SavedTo \o OutFile>>
    /\ Fetches = <<>>

SearchAnswered ==
    /\ args.command = "search"
    /\ pc \in {"search_loop", "done"}

\* the results the service returned, none when the list is absent
Returned == IF response.present THEN response.items ELSE <<>>

\* C7: search prints one block per result, in the order the service returned
\* them, none dropped, repeated or moved: the heading with the title, the URL
\* line, the description (or "No description" when absent), the separator.
\* An empty or absent list prints nothing.
C7_SearchBlocks ==
    SearchAnswered =>
        /\ Len(stdout) = 4 * idx
        /\ idx <= Len(Returned)
        /\ pc = "done" => idx = Len(Returned)
        /\ \A k \in 1..idx :
              LET r == Returned[k] IN
              /\ stdout[4 * k - 3] = Heading \o r.title
              /\ stdout[4 * k - 2] = UrlLabel \o r.url
              /\ r.description = None => stdout[4 * k - 1] = NoDescription
              /\ Truthy(r.description) => stdout[4 * k - 1] = r.description
              /\ stdout[4 * k] = Separator

C7_Witness ==
    /\ args.command = "search"
    /\ pc = "done"
    /\ response.present
    /\ Len(response.items) = 2
    /\ response.items[1].title = <<"W">>
    /\ response.items[2].title = <<"T">>
    /\ response.items[1].description = None
    /\ Len(stdout) = 8
    /\ stdout[3] = NoDescription

NullText == {Str(None), <<"n", "u", "l", "l">>, Heading \o Str(None)}

\* C8: every optional field of a response is null-checked before use: no run
\* fails on the use of an absent field (AttributeError), and no run prints a
\* null placeholder ("None", "null") in place of an absent field.
C8_NullChecked ==
    /\ \A k \in 1..Len(stderr) : stderr[k] # "AttributeError"
    /\ \A k \in 1..Len(stdout) : stdout[k] \notin NullText

HandlerOf(c) ==
    CASE c = "markdown" -> "scrape_markdown"
      [] c = "screenshot" -> "take_screenshot"
      [] c = "extract" -> "extract_data"
      [] c = "search" -> "search_web"
      [] c = "crawl" -> "crawl_docs"

Parsed == args # NoArgs

\* what every parsed run satisfies: at most one handler, the named one, at
\* most one request to the service, and a fetch only in screenshot with a
\* locator and an output path, once
OneCallAtMost ==
    /\ Len(Handlers) <= 1
    /\ \A k \in 1..Len(Handlers) : Handlers[k].op = HandlerOf(args.command)
    /\ Len(ServiceCalls) <= Len(Handlers)
    /\ Len(Fetches) <= 1
    /\ Fetches # <<>> =>
          /\ args.command = "screenshot"
          /\ RemoteLocator(response)
          /\ Truthy(args.output)

PaddedName(output, i) ==
    output \o PageStem
           \o (IF i < 10 THEN <<"0", "0">> ELSE IF i < 100 THEN <<"0">> ELSE <<>>)
           \o Decimal(i) \o DotMd

WriteFailed ==
    /\ args.command = "crawl"
    /\ pc = "crashed"
    /\ stderr # <<>>
    /\ stderr[Len(stderr)] \in {"OSError in open", "OSError in write"}

\* C10: when writing the file of page k fails in a crawl to a directory, the
\* run ends there as an uncaught failure: the files of pages 0..k-1 stay on
\* disk with what was written, no file of a later page is written, and the
\* "Saved N pages" report is not printed.
C10_NoRollback ==
    WriteFailed =>
        /\ exit_code = 1
        /\ ~ENABLED Next
        /\ stdout = <<>>
        /\ \A i \in 0..(idx - 1) :
              /\ PaddedName(args.output, i) \in written
              /\ PaddedName(args.output, i) \in DOMAIN fs
              /\ fs[PaddedName(args.output, i)] = ExpectedText(result.items[i + 1])
        /\ \A j \in (idx + 1)..(Len(result.items) - 1) :
              PaddedName(args.output, j) \notin written

C10_Witness ==
    /\ WriteFailed
    /\ idx = 1
    /\ Len(result.items) = 2
    /\ stderr = <<"OSError in write">>
    /\ PaddedName(OutDir, 0) \in written
    /\ fs[PaddedName(OutDir, 0)] = <<"A">>

====
